---- MODULE Spec2Model ----
(***************************************************************************)
(* Rotary position embedding of pwan/modules/model.py:                     *)
(*   - the band split rope_apply uses on the frequency table (SpecSplit),  *)
(*   - rope_apply, the table based path, sample by sample (SpecApply),     *)
(*   - rope_apply_jit and the blocks of rope_kernel (SpecKernel),          *)
(*   - the launch configuration of rope_apply_jit alone (SpecConfig),      *)
(*   - rope_params, the build of one table (SpecParams),                   *)
(*   - the table WanModel.__init__ builds and its split (SpecInit).        *)
(* Tensors are functions on 0..n-1, as the code indexes them.  Angles are  *)
(* counted in quarter turns, so that sin and cos are exact integers and    *)
(* the rotation formulas of the code are evaluated as written.             *)
(***************************************************************************)
EXTENDS Integers, Sequences, FiniteSets, TLC

VARIABLES
  \* ---- SpecSplit: the split of line 218
  total_pairs,   \* c = x.size(3) // 2
  bands,         \* the three sizes handed to freqs.split, <<>> before the split
  \* ---- SpecApply: rope_apply
  x_in,          \* x, [B][L][n][2c]
  grid_sizes,    \* one <<f, h, w>> per sample
  freqs,         \* the frequency table, [max_seq_len][c] of 2x2 matrices
  a_pc,          \* "loop" | "returned" | "raised"
  a_i,           \* index of the sample the loop is at
  output,        \* the list `output` (and, once returned, the stacked result)
  freqs_i,       \* <<i, freqs_i>>: the last sample that got that far, and its freqs_i
  a_err,         \* line of the check that raised, 0 if none
  \* ---- SpecKernel: rope_apply_jit / rope_kernel
  k_args,        \* the arguments' shapes, flags and pos / freqs contents
  x,             \* the memory of x, by flat offset
  k_pc,          \* "call" | "running" | "returned" | "raised" | "faulted"
                 \* (SpecConfig: "config" | "configured")
  k_err,         \* line of the raise, 0 if none
  launch,        \* n_heads, HEADS_PER_BLOCK, HEAD_GROUP_SIZE, n_blocks of the launch
  b_pc,          \* per block: <<"idle">>, <<"load" | "compute" | "store", head_idx>>, <<"done">>
  regs,          \* per block: what the block holds of its current head group
  accessed,      \* per block: the head ranges <<lo, hi>> whose x it loaded or stored
  oob,           \* whether pos was read at an index >= N
  \* ---- SpecParams: rope_params
  p_args,        \* max_seq_len, dim, theta of the call
  p_pc,          \* "call" | "returned" | "raised"
  p_err,         \* line of the raise, 0 if none
  p_freqs,       \* the table returned, <<>> if none
  \* ---- SpecInit: the buffers of WanModel.__init__, then the split of rope_apply
  w_args,        \* dim and num_heads of the model
  w_pc,          \* "init" | "built" | "forward" | "split" | "raised"
  w_tables,      \* the three tables of lines 659-661, in that order
  w_split        \* the three tensors freqs.split returns at line 218

varsSplit  == <<total_pairs, bands>>
varsApply  == <<x_in, grid_sizes, freqs, a_pc, a_i, output, freqs_i, a_err>>
varsKernel == <<k_args, x, k_pc, k_err, launch, b_pc, regs, accessed, oob>>
varsParams == <<p_args, p_pc, p_err, p_freqs>>
varsInit   == <<w_args, w_pc, w_tables, w_split>>
vars == <<varsSplit, varsApply, varsKernel, varsParams, varsInit>>

----------------------------------------------------------------------------
(* Tensors on 0..n-1 *)

Len0(a) == Cardinality(DOMAIN a)

Empty0 == [i \in {} |-> 0]

\* torch.cat of two tensors along their first dimension
Cat0(a, b) ==
  [i \in 0..(Len0(a) + Len0(b) - 1) |->
      IF i < Len0(a) THEN a[i] ELSE b[i - Len0(a)]]

\* reshape that merges the first two dimensions, row-major
RECURSIVE FlatUpTo(_, _)
FlatUpTo(a, k) ==
  IF k = 0 THEN Empty0 ELSE Cat0(FlatUpTo(a, k - 1), a[k - 1])

Flatten0(a) == FlatUpTo(a, Len0(a))

Max(a, b) == IF a >= b THEN a ELSE b
Min(a, b) == IF a <= b THEN a ELSE b

\* a[lo:hi], clamped as Python clamps a slice
Slice0(a, lo, hi) ==
  LET from == Min(lo, Len0(a))
      to   == Max(from, Min(hi, Len0(a)))
  IN  [i \in 0..(to - from - 1) |-> a[from + i]]

----------------------------------------------------------------------------
(* Trigonometry on quarter turns *)

Cos4(a) == CASE a % 4 = 0 -> 1 [] a % 4 = 1 -> 0 [] a % 4 = 2 -> -1 [] OTHER -> 0
Sin4(a) == CASE a % 4 = 0 -> 0 [] a % 4 = 1 -> 1 [] a % 4 = 2 -> 0 [] OTHER -> -1

----------------------------------------------------------------------------
(* Bounds *)

MaxPairs == 64      \* SpecSplit: total_pairs ranges over 0..MaxPairs
MaxGrid  == 2       \* SpecApply: f, h, w range over 1..MaxGrid
MaxLen   == 8       \* SpecApply: the padded length L ranges over 1..MaxLen
MaxSeq   == 2       \* SpecApply: max_seq_len ranges over 1..MaxSeq
BatchSizes == {1, 2}
PairCounts == {1, 3, 4}
HeadCounts == {1, 2}

----------------------------------------------------------------------------
(* The band split, line 218 *)

\* a plausible slip: the remainder is not given to the first band
SplitSizesEqual(c) == <<c \div 3, c \div 3, c \div 3>>

\* a plausible slip: only one c // 3 is taken off the first band
SplitSizesOnce(c) == <<c - (c \div 3), c \div 3, c \div 3>>

SplitSizes(c) == <<c - 2 * (c \div 3), c \div 3, c \div 3>>

InitKernelIdle ==
  /\ k_args = <<>> /\ x = <<>> /\ k_pc = "off" /\ k_err = 0
  /\ launch = <<>> /\ b_pc = <<>> /\ regs = <<>> /\ accessed = <<>> /\ oob = FALSE

InitApplyIdle ==
  /\ x_in = <<>> /\ grid_sizes = <<>> /\ freqs = <<>> /\ a_pc = "off"
  /\ a_i = 0 /\ output = <<>> /\ freqs_i = <<>> /\ a_err = 0

InitParamsIdle ==
  /\ p_args = <<>> /\ p_pc = "off" /\ p_err = 0 /\ p_freqs = <<>>

InitInitIdle ==
  /\ w_args = <<>> /\ w_pc = "off" /\ w_tables = <<>> /\ w_split = <<>>

InitSplit ==
  /\ total_pairs \in 0..MaxPairs
  /\ bands = <<>>
  /\ InitApplyIdle
  /\ InitKernelIdle
  /\ InitParamsIdle
  /\ InitInitIdle

split_freqs ==
  /\ bands = <<>>
  /\ bands' = SplitSizes(total_pairs)
  /\ UNCHANGED <<total_pairs, varsApply, varsKernel, varsParams, varsInit>>

NextSplit == split_freqs

SpecSplit == InitSplit /\ [][NextSplit]_vars

\* C1: for every total_pairs c >= 0 the split is (c - 2*(c // 3), c // 3, c // 3),
\* the three sizes add up to c and the first is at least the second.
C1_BandSplit ==
  bands # <<>> =>
    /\ bands[1] = total_pairs - 2 * (total_pairs \div 3)
    /\ bands[2] = total_pairs \div 3
    /\ bands[3] = total_pairs \div 3
    /\ bands[1] + bands[2] + bands[3] = total_pairs
    /\ bands[1] >= bands[2]

\* the split has been taken for a c that 3 does not divide
C1_Witness == bands # <<>> /\ total_pairs % 3 = 2 /\ total_pairs > 3

\* C2: the split of 10 pairs is (6, 2, 2) and the split of 9 pairs is (5, 2, 2).
C2_BandSplitExamples ==
  bands # <<>> =>
    /\ (total_pairs = 10 => bands = <<6, 2, 2>>)
    /\ (total_pairs = 9 => bands = <<5, 2, 2>>)

\* C2, amended: the split of 10 pairs is (4, 3, 3) and the split of 9 pairs is
\* (3, 3, 3); the first band exceeds the others by total_pairs % 3.
C2_BandSplitAmended ==
  bands # <<>> =>
    /\ (total_pairs = 10 => bands = <<4, 3, 3>>)
    /\ (total_pairs = 9 => bands = <<3, 3, 3>>)

C2_Witness == bands # <<>> /\ total_pairs \in {9, 10}

----------------------------------------------------------------------------
(* rope_params: one table entry.  The rate stands for the column's          *)
(* 1 / theta^(2i/dim), in quarter turns per position.  An entry carries the *)
(* row and column it was built for beside its 2x2 matrix, so that the       *)
(* tensor operations of rope_apply can be followed entry by entry.          *)

RotMatrix(a) ==
  [r \in 0..1 |-> [q \in 0..1 |->
      IF r = 0 THEN (IF q = 0 THEN Cos4(a) ELSE -Sin4(a))
               ELSE (IF q = 0 THEN Sin4(a) ELSE Cos4(a))]]

ColumnRate(k) == (k % 3) + 1

TableEntry(p, k) == [pos |-> p, col |-> k, m |-> RotMatrix(p * ColumnRate(k))]

FreqTable(rows, cols) ==
  [p \in 0..(rows - 1) |-> [k \in 0..(cols - 1) |-> TableEntry(p, k)]]

----------------------------------------------------------------------------
(* rope_apply, lines 210-256 *)

XVal(b, t, hd, d) == 1000 * b + 100 * t + 10 * hd + d + 1

InputX(B, L, n, c) ==
  [b \in 0..(B - 1) |-> [t \in 0..(L - 1) |-> [hd \in 0..(n - 1) |->
      [d \in 0..(2 * c - 1) |-> XVal(b, t, hd, d)]]]]

a_l == Len0(x_in[0])                \* l = x.size(1)
a_n == Len0(x_in[0][0])             \* n = x.size(2)
a_c == Len0(x_in[0][0][0]) \div 2   \* c = x.size(3) // 2
max_seq_len == Len0(freqs)          \* freqs.size(0)

\* freqs.split(sizes, dim=1)[b]: the columns of band b, for every row
SplitBand(b) ==
  LET sizes == SplitSizes(a_c)
      off   == IF b = 1 THEN 0 ELSE IF b = 2 THEN sizes[1] ELSE sizes[1] + sizes[2]
  IN  [p \in 0..(max_seq_len - 1) |-> [j \in 0..(sizes[b] - 1) |-> freqs[p][off + j]]]

\* freqs[b][:k]
BandRows(b, k) == Slice0(SplitBand(b), 0, k)

\* .view(...) of a band slice as k rows: it raises when the slice has fewer rows
ViewOk(b, k) == Len0(BandRows(b, k)) = k

\* lines 237-241: the three bands expanded over the grid and joined on the last
\* dimension, [f][h][w][c]
ExpandCat(f, h, w) ==
  [ft \in 0..(f - 1) |-> [ht \in 0..(h - 1) |-> [wt \in 0..(w - 1) |->
      Cat0(Cat0(BandRows(1, f)[ft], BandRows(2, h)[ht]), BandRows(3, w)[wt])]]]

\* the same with the grid walked width first (column-major)
ReshapeTokensColMajor(t4) ==
  LET f == Len0(t4)
      h == Len0(t4[0])
      w == Len0(t4[0][0])
  IN  [t \in 0..(f * h * w - 1) |-> t4[t % f][(t \div f) % h][t \div (f * h)]]

\* line 242: reshape(-1, 1, c, 2, 2), which merges f, h and w row-major
ReshapeTokens(t4) == Flatten0(Flatten0(t4))

FreqsI(f, h, w) == ReshapeTokens(ExpandCat(f, h, w))

\* the same with the product summed over dimension 3 instead of 4
RotateHeadSumRows(v, fr) ==
  LET pairs == [j \in 0..(a_c - 1) |-> [q \in 0..1 |-> v[2 * j + q]]]
      prod  == [j \in 0..(a_c - 1) |-> [r \in 0..1 |-> [q \in 0..1 |->
                   pairs[j][q] * fr[j].m[r][q]]]]
      sum3  == [j \in 0..(a_c - 1) |-> [q \in 0..1 |-> prod[j][0][q] + prod[j][1][q]]]
  IN  [d \in 0..(2 * a_c - 1) |-> sum3[d \div 2][d % 2]]

\* lines 229 and 245 for one head vector v of 2c values and one token's c entries:
\* reshape to [c][1][2], multiply by [c][2][2] broadcasting, sum the last
\* dimension, flatten to 2c
RotateHead(v, fr) ==
  LET pairs == [j \in 0..(a_c - 1) |-> [q \in 0..1 |-> v[2 * j + q]]]
      prod  == [j \in 0..(a_c - 1) |-> [r \in 0..1 |-> [q \in 0..1 |->
                   pairs[j][q] * fr[j].m[r][q]]]]
      sum4  == [j \in 0..(a_c - 1) |-> [r \in 0..1 |-> prod[j][r][0] + prod[j][r][1]]]
  IN  [d \in 0..(2 * a_c - 1) |-> sum4[d \div 2][d % 2]]

ApplyRotary(x_b, fr) ==
  [t \in DOMAIN x_b |-> [hd \in DOMAIN x_b[t] |-> RotateHead(x_b[t][hd], fr[t])]]

\* the checks of one loop iteration, in the order of the code: the line that
\* raises, 0 when none does
SeqLenCheck(seq_len, l) == seq_len = l                 \* lines 226, 227
GridCheckNone(k) == TRUE                               \* (the check left out)
GridCheck(k) == k <= max_seq_len                       \* lines 234-236
TailCheck(l, seq_len) == 2 * l - seq_len # 1           \* line 252

RaisedAt(f, h, w) ==
  LET seq_len == f * h * w
  IN  IF ~SeqLenCheck(seq_len, a_l) THEN 226
      ELSE IF f < 0 THEN 231
      ELSE IF h < 0 THEN 232
      ELSE IF w < 0 THEN 233
      ELSE IF ~GridCheck(f) THEN 234
      ELSE IF ~GridCheck(h) THEN 235
      ELSE IF ~GridCheck(w) THEN 236
      ELSE IF ~(ViewOk(1, f) /\ ViewOk(2, h) /\ ViewOk(3, w)) THEN 238
      ELSE IF ~TailCheck(a_l, seq_len) THEN 252
      ELSE 0

\* lines 228-248: the sample's rotated tokens followed by its tail x[i, seq_len:]
SampleOut(i, f, h, w) ==
  LET seq_len == f * h * w
      x_b     == Slice0(x_in[i], 0, seq_len)
      x_i     == ApplyRotary(x_b, FreqsI(f, h, w))
  IN  Cat0(x_i, Slice0(x_in[i], seq_len, a_l))

InitApply ==
  /\ \E B \in BatchSizes, L \in 1..MaxLen, n \in HeadCounts, c \in PairCounts,
        rows \in 1..MaxSeq :
       /\ x_in = InputX(B, L, n, c)
       /\ grid_sizes \in [0..(B - 1) -> (1..MaxGrid) \X (1..MaxGrid) \X (1..MaxGrid)]
       /\ freqs = FreqTable(rows, c)
  /\ a_pc = "loop"
  /\ a_i = 0
  /\ output = <<>>
  /\ freqs_i = <<>>
  /\ a_err = 0
  /\ total_pairs = 0 /\ bands = <<>>
  /\ InitKernelIdle
  /\ InitParamsIdle
  /\ InitInitIdle

\* one iteration of the loop over the samples, lines 222-253
rope_apply_sample ==
  /\ a_pc = "loop"
  /\ a_i < Len0(grid_sizes)
  /\ LET f   == grid_sizes[a_i][1]
         h   == grid_sizes[a_i][2]
         w   == grid_sizes[a_i][3]
         err == RaisedAt(f, h, w)
     IN  /\ a_err' = err
         /\ freqs_i' = IF err \in {0, 252} THEN <<a_i, FreqsI(f, h, w)>> ELSE freqs_i
         /\ IF err = 0
              THEN /\ output' = Append(output, SampleOut(a_i, f, h, w))
                   /\ a_i' = a_i + 1
                   /\ a_pc' = "loop"
              ELSE /\ output' = <<>>
                   /\ a_i' = a_i
                   /\ a_pc' = "raised"
  /\ UNCHANGED <<x_in, grid_sizes, freqs, varsSplit, varsKernel, varsParams, varsInit>>

\* line 256: torch.stack(output, dim=0)
rope_apply_return ==
  /\ a_pc = "loop"
  /\ a_i = Len0(grid_sizes)
  /\ a_pc' = "returned"
  /\ output' = [b \in 0..(Len(output) - 1) |-> output[b + 1]]
  /\ UNCHANGED <<x_in, grid_sizes, freqs, a_i, freqs_i, a_err, varsSplit, varsKernel, varsParams, varsInit>>

NextApply == rope_apply_sample \/ rope_apply_return

SpecApply == InitApply /\ [][NextApply]_vars

----------------------------------------------------------------------------
(* Claims about rope_apply.  The definitions of this section are the        *)
(* vocabulary of the claims, written from the contract and not from the      *)
(* code's tensor operations.                                                 *)

a_finished == a_pc \in {"returned", "raised"}

SeqLenOf(i) == grid_sizes[i][1] * grid_sizes[i][2] * grid_sizes[i][3]

DimsInRange(i) == \A d \in 1..3 : grid_sizes[i][d] \in 1..max_seq_len

\* the table position of axis d (1: frames, 2: height, 3: width) for token t of
\* sample i, the grid being walked row-major
AxisPos(i, t, d) ==
  LET h == grid_sizes[i][2]
      w == grid_sizes[i][3]
  IN  IF d = 1 THEN t \div (h * w) ELSE IF d = 2 THEN (t \div w) % h ELSE t % w

\* the axis whose band column j of the table belongs to
AxisOf(j) ==
  LET bT == a_c - 2 * (a_c \div 3)
      bH == a_c \div 3
  IN  IF j < bT THEN 1 ELSE IF j < bT + bH THEN 2 ELSE 3

\* value d of head hd of token t of sample i, rotated by the token's angles
Rotated(i, t, hd, d) ==
  LET j   == d \div 2
      ang == AxisPos(i, t, AxisOf(j)) * ColumnRate(j)
      re  == x_in[i][t][hd][2 * j]
      im  == x_in[i][t][hd][2 * j + 1]
  IN  IF d % 2 = 0 THEN re * Cos4(ang) - im * Sin4(ang)
                   ELSE im * Cos4(ang) + re * Sin4(ang)

\* C3: padding pass-through: when the samples fit the padded length and one is
\* shorter than it, the call completes, the tokens below seq_len are rotated and
\* every token from seq_len on is in the output as it was in the input.
C3_PaddingPassThrough ==
  (/\ a_finished
   /\ \A i \in DOMAIN grid_sizes : DimsInRange(i) /\ SeqLenOf(i) <= a_l
   /\ \E i \in DOMAIN grid_sizes : SeqLenOf(i) < a_l)
  => /\ a_pc = "returned"
     /\ \A i \in DOMAIN grid_sizes : \A t \in 0..(a_l - 1) : \A hd \in 0..(a_n - 1) :
          \A d \in 0..(2 * a_c - 1) :
            output[i][t][hd][d] =
              IF t < SeqLenOf(i) THEN Rotated(i, t, hd, d) ELSE x_in[i][t][hd][d]

\* C4: with f, h, w within [1, max_position] the call fails if and only if some
\* sample has f*h*w > padded_len.
C4_SeqLenValidation ==
  (a_finished /\ \A i \in DOMAIN grid_sizes : DimsInRange(i))
  => (a_pc = "raised" <=> \E i \in DOMAIN grid_sizes : SeqLenOf(i) > a_l)

CheckLines == {226, 231, 232, 233, 234, 235, 236, 252}

\* C5: a call with a sample in which f, h or w exceeds max_position fails in one
\* of the checks, before the table is read for that sample, and returns nothing;
\* every table row read in a call lies in [0, max_position).
C5_GridDimValidation ==
  /\ (a_finished /\ \E i \in DOMAIN grid_sizes : \E d \in 1..3 :
                       grid_sizes[i][d] > max_seq_len)
       => (a_pc = "raised" /\ a_err \in CheckLines /\ output = <<>>)
  /\ freqs_i # <<>> =>
       \A t \in DOMAIN freqs_i[2] : \A j \in DOMAIN freqs_i[2][t] :
          freqs_i[2][t][j].pos \in 0..(max_seq_len - 1)

\* the check of a grid dimension has raised for a sample of the right length
C5_Witness ==
  /\ a_pc = "raised" /\ a_err \in {234, 235, 236}
  /\ SeqLenOf(a_i) = a_l
  /\ \E d \in 1..3 : grid_sizes[a_i][d] > max_seq_len

\* C6: the rotation vector of token t of a grid (f, h, w) is the row ft of the
\* temporal band, then the row ht of the height band, then the row wt of the
\* width band, with ft = t // (h*w), ht = (t // w) % h, wt = t % w, and it has
\* c entries.
C6_RowMajorExpansion ==
  freqs_i # <<>> =>
    LET i == freqs_i[1]
        F == freqs_i[2]
    IN  /\ DOMAIN F = 0..(SeqLenOf(i) - 1)
        /\ \A t \in DOMAIN F :
             /\ DOMAIN F[t] = 0..(a_c - 1)
             /\ \A j \in DOMAIN F[t] : F[t][j] = freqs[AxisPos(i, t, AxisOf(j))][j]

\* a grid with two axes longer than 1 and a table whose three bands are not empty
C6_Witness ==
  /\ a_pc = "returned" /\ freqs_i # <<>> /\ a_c >= 3
  /\ \E i \in DOMAIN grid_sizes :
       /\ Cardinality({d \in 1..3 : grid_sizes[i][d] > 1}) >= 2
       /\ grid_sizes[i][2] # grid_sizes[i][3]

----------------------------------------------------------------------------
(* rope_apply_jit, lines 103-173: the arguments *)

MaxPos     == 2     \* SpecKernel: the entries of pos range over 0..MaxPos
MaxFreq    == 2     \* SpecKernel: the entries of freqs range over 1..MaxFreq
MaxDefects == 2     \* SpecKernel: a call's arguments have up to MaxDefects defects
MaxLanes   == 4     \* SpecKernel: a launch of up to MaxLanes blocks has a lane
                    \* for each block and starts them in any order
                    \* (a larger launch runs one block at a time, in the order
                    \* of the block index)
ElemSizes  == {1, 2, 4, 8}
SmallSizes == {1, 2}          \* N and H of the launches below the threshold
SmallDims  == {2, 4}          \* D of the launches below the threshold
\* launches at the threshold, <<N, H, D, element size>>
LargeCases == {<<1024, 2, 2, 1>>, <<1024, 2, 2, 4>>, <<2048, 1, 6, 1>>}
\* launches above the threshold whose blocks run in any order and whose last
\* block reaches past the last head
OverrunCases == {<<1025, 2, 2, 1>>}
Defects == {"x_ndim", "x_noncontig", "pos_ndim", "pos_len", "pos_noncontig",
            "d_odd", "freqs_ndim", "freqs_len", "freqs_noncontig"}

\* the arguments of a call: x of shape (N, H, D), pos and freqs with the given
\* contents, spoiled by the defects named
KernelArgs(N, H, D, es, posv, freqv, defects) ==
  LET DD == IF "d_odd" \in defects THEN D + 1 ELSE D
  IN  [x_shape      |-> IF "x_ndim" \in defects THEN <<N * H, DD>> ELSE <<N, H, DD>>,
       x_contig     |-> "x_noncontig" \notin defects,
       element_size |-> es,
       pos          |-> posv,
       pos_shape    |-> IF "pos_ndim" \in defects THEN <<N, 1>>
                        ELSE IF "pos_len" \in defects THEN <<N + 1>> ELSE <<N>>,
       pos_contig   |-> "pos_noncontig" \notin defects,
       freqs        |-> freqv,
       freqs_shape  |-> IF "freqs_ndim" \in defects THEN <<D \div 2, 1>>
                        ELSE IF "freqs_len" \in defects THEN <<(D \div 2) + 1>>
                        ELSE <<D \div 2>>,
       freqs_contig |-> "freqs_noncontig" \notin defects]

RECURSIVE Product(_)
Product(shape) == IF shape = <<>> THEN 1 ELSE Head(shape) * Product(Tail(shape))

\* the contents of x when rope_apply_jit is called
x0 == [o \in 0..(Product(k_args.x_shape) - 1) |-> o + 1]

\* lines 127-150: the line of the ValueError raised, 0 when the arguments pass
FreqsShapeCheckNoLen(a) == Len(a.freqs_shape) # 1    \* (the length left unchecked)
FreqsShapeCheck(a) ==                                \* line 144
  Len(a.freqs_shape) # 1 \/ a.freqs_shape[1] * 2 # a.x_shape[3]

ValidationError(a) ==
  IF Len(a.x_shape) # 3 THEN 128
  ELSE IF ~a.x_contig THEN 132
  ELSE IF Len(a.pos_shape) # 1 \/ a.pos_shape[1] # a.x_shape[1] THEN 137
  ELSE IF ~a.pos_contig THEN 142
  ELSE IF FreqsShapeCheck(a) THEN 145
  ELSE IF ~a.freqs_contig THEN 150
  ELSE 0

----------------------------------------------------------------------------
(* triton.next_power_of_2 and triton.cdiv *)

RECURSIVE BitOr(_, _)
BitOr(a, b) ==
  IF a = 0 THEN b
  ELSE IF b = 0 THEN a
  ELSE IF a = -1 \/ b = -1 THEN -1
  ELSE 2 * BitOr(a \div 2, b \div 2) + (IF a % 2 = 1 \/ b % 2 = 1 THEN 1 ELSE 0)

\* a >> k
RECURSIVE Shr(_, _)
Shr(a, k) == IF k = 0 THEN a ELSE Shr(a \div 2, k - 1)

\* n -= 1; n |= n >> 1; ... ; n |= n >> 32; n += 1
NextPowerOf2(n) ==
  LET n0 == n - 1
      n1 == BitOr(n0, Shr(n0, 1))
      n2 == BitOr(n1, Shr(n1, 2))
      n3 == BitOr(n2, Shr(n2, 4))
      n4 == BitOr(n3, Shr(n3, 8))
      n5 == BitOr(n4, Shr(n4, 16))
      n6 == BitOr(n5, Shr(n5, 32))
  IN  n6 + 1

Cdiv(a, b) == (a + b - 1) \div b

----------------------------------------------------------------------------
(* lines 152-161: the launch configuration *)

HeadThreshold == 2048      \* line 153
BlockBytes    == 2048      \* line 158
GroupBytes    == 512       \* line 159

LaunchConfig(a) ==
  LET N       == a.x_shape[1]
      H       == a.x_shape[2]
      D       == a.x_shape[3]
      n_heads == N * H
      head_size == D * a.element_size
      HPB == IF n_heads < HeadThreshold THEN 1 ELSE Max(1, BlockBytes \div head_size)
      HGS == IF n_heads < HeadThreshold THEN 1
             ELSE NextPowerOf2(GroupBytes \div head_size)
      n_blocks == Cdiv(n_heads, HPB)
  IN  [n_heads |-> n_heads, HEAD_DIM |-> D, HEAD_DIM2 |-> NextPowerOf2(D) \div 2,
       HEADS_PER_ELEM |-> H, HEAD_GROUP_SIZE |-> HGS, HEADS_PER_BLOCK |-> HPB,
       n_blocks |-> n_blocks,
       lanes |-> IF n_blocks <= MaxLanes THEN n_blocks ELSE 1,
       in_order |-> n_blocks > MaxLanes]

PosTensors(N) ==
  [0..(N - 1) -> 0..MaxPos]

FreqTensors(D) ==
  [0..((D \div 2) - 1) -> 1..MaxFreq]

InitKernel ==
  /\ \/ \E N \in SmallSizes, H \in SmallSizes, D \in SmallDims, es \in ElemSizes :
          \E posv \in PosTensors(N), freqv \in FreqTensors(D) :
             k_args = KernelArgs(N, H, D, es, posv, freqv, {})
     \/ \E N \in SmallSizes, H \in SmallSizes, D \in SmallDims :
          \E defects \in {S \in SUBSET Defects : Cardinality(S) \in 1..MaxDefects} :
             k_args = KernelArgs(N, H, D, 2, [i \in 0..(N - 1) |-> i],
                                 [j \in 0..((D \div 2) - 1) |-> 1], defects)
     \/ \E c \in LargeCases, zero \in BOOLEAN :
          k_args = KernelArgs(c[1], c[2], c[3], c[4],
                              [i \in 0..(c[1] - 1) |-> IF zero THEN 0 ELSE i],
                              [j \in 0..((c[3] \div 2) - 1) |-> j + 1], {})
     \/ \E c \in OverrunCases :
          k_args = KernelArgs(c[1], c[2], c[3], c[4],
                              [i \in 0..(c[1] - 1) |-> i],
                              [j \in 0..((c[3] \div 2) - 1) |-> j + 1], {})
  /\ x = [o \in 0..(Product(k_args.x_shape) - 1) |-> o + 1]
  /\ k_pc = "call"
  /\ k_err = 0
  /\ launch = <<>>
  /\ b_pc = <<>>
  /\ regs = <<>>
  /\ accessed = <<>>
  /\ oob = FALSE
  /\ total_pairs = 0 /\ bands = <<>>
  /\ InitApplyIdle
  /\ InitParamsIdle
  /\ InitInitIdle

\* lines 127-173 up to the launch: the checks, the launch configuration, then
\* the grid of n_blocks blocks.  A HEAD_GROUP_SIZE of 0 makes tl.arange(0, 0),
\* which triton refuses to compile: the launch raises and no block runs.
rope_apply_jit ==
  /\ k_pc = "call"
  /\ LET err == ValidationError(k_args)
     IN  IF err # 0
           THEN /\ k_pc' = "raised" /\ k_err' = err
                /\ UNCHANGED <<launch, b_pc, regs, accessed>>
           ELSE LET cfg == LaunchConfig(k_args)
                IN  IF cfg.HEAD_GROUP_SIZE < 1
                      THEN /\ k_pc' = "raised" /\ k_err' = 162
                           /\ launch' = cfg
                           /\ UNCHANGED <<b_pc, regs, accessed>>
                      ELSE /\ k_pc' = "running" /\ k_err' = 0
                           /\ launch' = cfg
                           /\ b_pc' = [b \in 0..(cfg.n_blocks - 1) |-> <<"idle">>]
                           /\ regs' = [b \in 0..(cfg.n_blocks - 1) |-> <<>>]
                           /\ accessed' = [b \in 0..(cfg.n_blocks - 1) |-> {}]
  /\ UNCHANGED <<k_args, x, oob, varsSplit, varsApply, varsParams, varsInit>>

----------------------------------------------------------------------------
(* rope_kernel, lines 56-100, one program (block) of the launch grid.  A     *)
(* block is started (lines 56-59), then for each head group of its range it  *)
(* loads (lines 67-94), computes (lines 96-97) and stores (lines 99-100).    *)
(* D is even here (line 144), so the pairs of a head are its D values.       *)

Blocks == DOMAIN b_pc

Running == {b \in Blocks : b_pc[b][1] \in {"load", "compute", "store"}}

\* the heads of the group at head_idx that pass the mask grp_ofs < n_heads
GroupEnd(head_idx) == Min(head_idx + launch.HEAD_GROUP_SIZE, launch.n_heads)

\* lines 96-97 with the sines and the cosines exchanged
KernelRotateSwapped(re, im, angle, q) ==
  IF q = 0 THEN re * Sin4(angle) - im * Cos4(angle)
           ELSE im * Sin4(angle) + re * Cos4(angle)

\* lines 85-86, 96-97: re_out (q = 0) or im_out (q = 1) of one pair
KernelRotate(re, im, angle, q) ==
  IF q = 0 THEN re * Cos4(angle) - im * Sin4(angle)
           ELSE im * Cos4(angle) + re * Sin4(angle)

\* lines 62-66: the next head_idx of the loop of block b, -1 when the loop ends
NextHeadIdx(b, head_idx) ==
  IF head_idx + launch.HEAD_GROUP_SIZE < (b + 1) * launch.HEADS_PER_BLOCK
    THEN head_idx + launch.HEAD_GROUP_SIZE
    ELSE -1

\* line 68: whether the load of head_pos for the group at head_idx, which has no
\* mask, reads pos at an index that pos does not have
PosOutOfRange(head_idx) ==
  (head_idx + launch.HEAD_GROUP_SIZE - 1) \div launch.HEADS_PER_ELEM
    >= Len0(k_args.pos)

\* lines 56-59: program_id, and the load of freqs under head_mask
block_start(b) ==
  /\ k_pc = "running"
  /\ b_pc[b] = <<"idle">>
  /\ Cardinality(Running) < launch.lanes
  /\ launch.in_order => \A c \in 0..(b - 1) : b_pc[c] # <<"idle">>
  /\ b_pc' = [b_pc EXCEPT ![b] = <<"load", b * launch.HEADS_PER_BLOCK>>]
  /\ regs' = [regs EXCEPT ![b] =
       [freqs |-> [j \in {k \in 0..(launch.HEAD_DIM2 - 1) : 2 * k < launch.HEAD_DIM}
                     |-> k_args.freqs[j]]]]
  /\ UNCHANGED <<k_args, x, k_pc, k_err, launch, accessed, oob, varsSplit, varsApply, varsParams, varsInit>>

\* lines 67-68, 88-94: the positions of the group (not masked) and its re and im
\* values (masked)
block_load(b) ==
  /\ k_pc = "running"
  /\ b_pc[b][1] = "load"
  /\ LET lo == b_pc[b][2]
         hi == GroupEnd(lo)
         D  == launch.HEAD_DIM
         H  == launch.HEADS_PER_ELEM
     IN  /\ oob' = (oob \/ PosOutOfRange(lo))
         /\ regs' = [regs EXCEPT ![b] =
               [freqs    |-> regs[b].freqs,
                head_pos |-> [gi \in lo..(hi - 1) |-> k_args.pos[gi \div H]],
                x_in     |-> [o \in (lo * D)..(hi * D - 1) |-> x[o]]]]
         /\ accessed' = IF lo < hi
                          THEN [accessed EXCEPT ![b] = @ \cup {<<lo, hi>>}]
                          ELSE accessed
         /\ b_pc' = [b_pc EXCEPT ![b] = <<"compute", lo>>]
  /\ UNCHANGED <<k_args, x, k_pc, k_err, launch, varsSplit, varsApply, varsParams, varsInit>>

\* line 68 when it reads past the end of pos: the read may also hit memory the
\* process does not own, which ends the launch with an illegal memory access
block_load_fault(b) ==
  /\ k_pc = "running"
  /\ b_pc[b][1] = "load"
  /\ PosOutOfRange(b_pc[b][2])
  /\ oob' = TRUE
  /\ k_pc' = "faulted"
  /\ k_err' = 68
  /\ UNCHANGED <<k_args, x, launch, b_pc, regs, accessed, varsSplit, varsApply,
                 varsParams, varsInit>>

\* lines 69-97: the angles, their sines and cosines, re_out and im_out
block_compute(b) ==
  /\ k_pc = "running"
  /\ b_pc[b][1] = "compute"
  /\ LET D == launch.HEAD_DIM
         r == regs[b]
     IN  regs' = [regs EXCEPT ![b] =
           [freqs    |-> r.freqs,
            head_pos |-> r.head_pos,
            x_in     |-> r.x_in,
            x_out    |-> [o \in DOMAIN r.x_in |->
               LET gi == o \div D
                   j  == (o % D) \div 2
               IN  KernelRotate(r.x_in[gi * D + 2 * j], r.x_in[gi * D + 2 * j + 1],
                                r.head_pos[gi] * r.freqs[j], o % 2)]]]
  /\ b_pc' = [b_pc EXCEPT ![b] = <<"store", b_pc[b][2]>>]
  /\ UNCHANGED <<k_args, x, k_pc, k_err, launch, accessed, oob, varsSplit, varsApply, varsParams, varsInit>>

\* lines 99-100: the masked stores, then the next group of the loop
block_store(b) ==
  /\ k_pc = "running"
  /\ b_pc[b][1] = "store"
  /\ LET lo   == b_pc[b][2]
         hi   == GroupEnd(lo)
         D    == launch.HEAD_DIM
         next == NextHeadIdx(b, lo)
     IN  /\ x' = [o \in DOMAIN x |->
                    IF o >= lo * D /\ o < hi * D THEN regs[b].x_out[o] ELSE x[o]]
         /\ b_pc' = [b_pc EXCEPT ![b] =
                       IF next = -1 THEN <<"done">> ELSE <<"load", next>>]
         /\ regs' = [regs EXCEPT ![b] = [freqs |-> regs[b].freqs]]
  /\ UNCHANGED <<k_args, k_pc, k_err, launch, accessed, oob, varsSplit, varsApply, varsParams, varsInit>>

\* the launch is over when every block is; rope_apply_jit has returned
kernel_return ==
  /\ k_pc = "running"
  /\ \A b \in Blocks : b_pc[b] = <<"done">>
  /\ k_pc' = "returned"
  /\ UNCHANGED <<k_args, x, k_err, launch, b_pc, regs, accessed, oob,
                 varsSplit, varsApply, varsParams, varsInit>>

NextKernel ==
  \/ rope_apply_jit
  \/ \E b \in Blocks : block_start(b)
  \/ \E b \in Blocks : block_load(b)
  \/ \E b \in Blocks : block_load_fault(b)
  \/ \E b \in Blocks : block_compute(b)
  \/ \E b \in Blocks : block_store(b)
  \/ kernel_return

SpecKernel == InitKernel /\ [][NextKernel]_vars

----------------------------------------------------------------------------
(* Claims about rope_apply_jit and rope_kernel, in the vocabulary of the     *)
(* contract (the docstring of lines 109-126).                                *)

ValidationLines == {128, 132, 137, 142, 145, 150}

\* what the contract of rope_apply_jit forbids
Violation(a) ==
  \/ Len(a.x_shape) # 3
  \/ ~a.x_contig \/ ~a.pos_contig \/ ~a.freqs_contig
  \/ Len(a.pos_shape) # 1 \/ a.pos_shape[1] # a.x_shape[1]
  \/ a.x_shape[3] % 2 = 1
  \/ Len(a.freqs_shape) # 1 \/ a.freqs_shape[1] # a.x_shape[3] \div 2

\* C7: a call with x not 3-D, a non-contiguous x, pos or freqs, pos not 1-D of
\* length N, D odd, or freqs not 1-D of length D/2 raises before any block is
\* launched and leaves x as it was; a call with none of these raises no
\* validation error.
C7_ValidationAtomic ==
  k_pc # "call" =>
    /\ Violation(k_args) =>
         (k_pc = "raised" /\ k_err \in ValidationLines /\ launch = <<>> /\ x = x0)
    /\ ~Violation(k_args) => k_err \notin ValidationLines

\* an odd D is refused by the check of the length of freqs
C7_Witness == k_pc = "raised" /\ k_err = 145 /\ k_args.x_shape[3] % 2 = 1

\* x[o] after one rotation of the pair of o by pos[gi // H] * freqs[j]
RotatedOnce(o) ==
  LET D   == k_args.x_shape[3]
      H   == k_args.x_shape[2]
      gi  == o \div D
      j   == (o % D) \div 2
      ang == k_args.pos[gi \div H] * k_args.freqs[j]
      re  == x0[gi * D + 2 * j]
      im  == x0[gi * D + 2 * j + 1]
  IN  IF o % 2 = 0 THEN re * Cos4(ang) - im * Sin4(ang)
                   ELSE im * Cos4(ang) + re * Sin4(ang)

\* C8: no head is rotated more than once (while the blocks run, every value of x
\* is the original one or the one of the pair rotated once), and once
\* rope_apply_jit has returned on valid input no head was skipped: every pair
\* of every head gi in [0, N*H) is the original pair rotated exactly once by
\* pos[gi // H] * freqs[j].
C8_ExactlyOnce ==
  /\ k_pc = "running" => \A o \in DOMAIN x : x[o] \in {x0[o], RotatedOnce(o)}
  /\ k_pc = "returned" => \A o \in DOMAIN x : x[o] = RotatedOnce(o)

Disjoint(r1, r2) == r1[2] <= r2[1] \/ r2[2] <= r1[1]

\* C9: no head of x is loaded or stored by head groups of two different blocks,
\* and the contents of x after the launch are the same whatever the order and
\* the interleaving of the blocks' steps.
C9_GroupIndependence ==
  /\ \A b1 \in Blocks : \A b2 \in Blocks \ {b1} :
       \A r1 \in accessed[b1] : \A r2 \in accessed[b2] : Disjoint(r1, r2)
  /\ k_pc = "returned" => \A o \in DOMAIN x : x[o] = RotatedOnce(o)

\* C10: with every entry of pos 0, x is after the call what it was before it.
C10_ZeroPositionIdentity ==
  (k_pc = "returned" /\ \A i \in DOMAIN k_args.pos : k_args.pos[i] = 0) => x = x0

\* a launch at the head threshold, with all positions 0, has returned
C10_Witness ==
  /\ k_pc = "returned"
  /\ \A i \in DOMAIN k_args.pos : k_args.pos[i] = 0
  /\ launch.n_heads >= HeadThreshold
  /\ launch.HEAD_GROUP_SIZE > 1

----------------------------------------------------------------------------
(* The table path against the kernel path *)

\* C12: for every pair (re, im) of a head, at offsets 2j and 2j+1, and the table
\* entry [[cos, -sin], [sin, cos]] rope_apply multiplies it with, the multiply
\* and sum of rope_apply gives re*cos - im*sin and im*cos + re*sin, which is
\* what lines 96-97 of rope_kernel give for the entry's angle.
C12_TableKernelSameRotation ==
  a_pc = "returned" =>
    LET i == freqs_i[1]
        F == freqs_i[2]
    IN  \A t \in DOMAIN F : \A j \in DOMAIN F[t] :
          LET ang == F[t][j].pos * ColumnRate(F[t][j].col)
          IN  /\ F[t][j].m[0][0] = Cos4(ang) /\ F[t][j].m[0][1] = -Sin4(ang)
              /\ F[t][j].m[1][0] = Sin4(ang) /\ F[t][j].m[1][1] = Cos4(ang)
              /\ \A hd \in 0..(a_n - 1) : \A q \in 0..1 :
                   output[i][t][hd][2 * j + q] =
                     KernelRotate(x_in[i][t][hd][2 * j], x_in[i][t][hd][2 * j + 1],
                                  ang, q)

\* a call has returned after rotating a pair by a quarter turn and another by
\* a half turn
C12_Witness ==
  /\ a_pc = "returned"
  /\ \E t \in DOMAIN freqs_i[2] : \E j \in DOMAIN freqs_i[2][t] :
       (freqs_i[2][t][j].pos * ColumnRate(freqs_i[2][t][j].col)) % 4 = 1
  /\ \E t \in DOMAIN freqs_i[2] : \E j \in DOMAIN freqs_i[2][t] :
       (freqs_i[2][t][j].pos * ColumnRate(freqs_i[2][t][j].col)) % 4 = 2

----------------------------------------------------------------------------
(* rope_params, lines 189-206 *)

MaxRows  == 3       \* SpecParams: max_seq_len ranges over -2..MaxRows
MaxDim   == 6       \* SpecParams: dim ranges over 0..MaxDim
MaxTheta == 3       \* SpecParams: theta ranges over -1..MaxTheta

\* line 194: whether 1.0 / torch.pow(theta, 2k / dim) is a finite number.
\* pow(theta, 0) is 1 for every theta; for 0 < 2k / dim < 1 the power of 0 is 0
\* (its inverse is inf) and the power of a negative theta is nan.
RateFinite(theta, k) == k = 0 \/ theta > 0

\* line 190
DimCheck(dim) == dim % 2 = 0

\* lines 192-205: the entry of row p and column k.  cos and sin of inf and of
\* nan (p * inf, p * nan) are nan: such an entry has no matrix.
ParamsEntry(p, k, dim, theta) ==
  [pos    |-> p,
   col    |-> k,
   dim    |-> dim,
   finite |-> RateFinite(theta, k),
   m      |-> IF RateFinite(theta, k) THEN TableEntry(p, k).m ELSE <<>>]

\* rope_params(max_seq_len, dim, theta), rows being its max_seq_len: the line
\* that raises (0 if none) and the table returned.  torch.arange(rows) raises
\* for negative rows and is empty for 0.
RopeParams(rows, dim, theta) ==
  IF ~DimCheck(dim) THEN [err |-> 190, table |-> <<>>]
  ELSE IF rows < 0 THEN [err |-> 193, table |-> <<>>]
  ELSE [err   |-> 0,
        table |-> [p \in 0..(rows - 1) |->
                     [k \in 0..((dim \div 2) - 1) |-> ParamsEntry(p, k, dim, theta)]]]

InitParams ==
  /\ p_args \in [max_seq_len : -2..MaxRows, dim : 0..MaxDim, theta : -1..MaxTheta]
  /\ p_pc = "call"
  /\ p_err = 0
  /\ p_freqs = <<>>
  /\ total_pairs = 0 /\ bands = <<>>
  /\ InitApplyIdle
  /\ InitKernelIdle
  /\ InitInitIdle

rope_params ==
  /\ p_pc = "call"
  /\ LET r == RopeParams(p_args.max_seq_len, p_args.dim, p_args.theta)
     IN  /\ p_err' = r.err
         /\ p_freqs' = r.table
         /\ p_pc' = IF r.err = 0 THEN "returned" ELSE "raised"
  /\ UNCHANGED <<p_args, varsSplit, varsApply, varsKernel, varsInit>>

NextParams == rope_params

SpecParams == InitParams /\ [][NextParams]_vars

\* C11: the build of a table fails whenever dim is odd, max_position <= 0 or
\* theta <= 0: rope_params raises for such parameters and returns no table.
C11_BuildValidation ==
  (/\ p_pc \in {"returned", "raised"}
   /\ (p_args.dim % 2 = 1 \/ p_args.max_seq_len <= 0 \/ p_args.theta <= 0))
  => (p_pc = "raised" /\ p_err # 0)

----------------------------------------------------------------------------
(* Claims about the reads of pos *)

\* C13: on valid input every index grp_ofs // H at which a block reads pos lies
\* in [0, N): no load of head_pos reads past the end of pos, and no launch ends
\* with an illegal memory access.
C13_PosIndexInRange ==
  k_pc \in {"running", "returned", "faulted"} => (~oob /\ k_pc # "faulted")

----------------------------------------------------------------------------
(* lines 152-161 on their own: the launch configuration as a function of the  *)
(* shape of x and of its element size.  The contents of x, pos and freqs     *)
(* play no part in it and are left out (SpecConfig).                          *)

ConfigN == {1, 2, 1024, 2048}
ConfigH == {1, 2, 40}
ConfigD == {2, 6, 48, 64, 66, 128, 256, 258, 512, 514}

InitConfig ==
  /\ \E N \in ConfigN, H \in ConfigH, D \in ConfigD, es \in ElemSizes :
       k_args = KernelArgs(N, H, D, es, Empty0, Empty0, {})
  /\ x = <<>>
  /\ k_pc = "config"
  /\ k_err = 0
  /\ launch = <<>>
  /\ b_pc = <<>>
  /\ regs = <<>>
  /\ accessed = <<>>
  /\ oob = FALSE
  /\ total_pairs = 0 /\ bands = <<>>
  /\ InitApplyIdle
  /\ InitParamsIdle
  /\ InitInitIdle

\* lines 152-161
launch_config ==
  /\ k_pc = "config"
  /\ ValidationError(k_args) = 0
  /\ launch' = LaunchConfig(k_args)
  /\ k_pc' = "configured"
  /\ UNCHANGED <<k_args, x, k_err, b_pc, regs, accessed, oob, varsSplit, varsApply,
                 varsParams, varsInit>>

NextConfig == launch_config

SpecConfig == InitConfig /\ [][NextConfig]_vars

----------------------------------------------------------------------------
(* Claims about the launch configuration *)

RECURSIVE IsPowerOfTwo(_)
IsPowerOfTwo(n) == n = 1 \/ (n > 1 /\ n % 2 = 0 /\ IsPowerOfTwo(n \div 2))

\* C14: for every valid x of shape (N, H, D) and element size in {1, 2, 4, 8}
\* rope_apply_jit chooses HEADS_PER_BLOCK >= 1 and HEAD_GROUP_SIZE >= 1, a power
\* of two: both 1 when N*H < 2048, and max(1, 2048 // head_size) and
\* next_power_of_2(512 // head_size) otherwise, with head_size = D * element_size.
C14_LaunchConfig ==
  (k_pc = "configured" /\ ~Violation(k_args)) =>
    LET n_heads   == k_args.x_shape[1] * k_args.x_shape[2]
        head_size == k_args.x_shape[3] * k_args.element_size
    IN  /\ launch.HEADS_PER_BLOCK >= 1
        /\ launch.HEAD_GROUP_SIZE >= 1
        /\ IsPowerOfTwo(launch.HEAD_GROUP_SIZE)
        /\ IF n_heads < HeadThreshold
             THEN launch.HEADS_PER_BLOCK = 1 /\ launch.HEAD_GROUP_SIZE = 1
             ELSE /\ launch.HEADS_PER_BLOCK = Max(1, BlockBytes \div head_size)
                  /\ launch.HEAD_GROUP_SIZE = NextPowerOf2(GroupBytes \div head_size)

----------------------------------------------------------------------------
(* WanModel.__init__, lines 655-662: the table of the model, and the split   *)
(* rope_apply makes of it for the queries of the attention layers (SpecInit) *)

MaxModelDim == 24    \* SpecInit: dim ranges over 1..MaxModelDim
MaxHeads    == 6     \* SpecInit: num_heads ranges over 1..MaxHeads
MaxHalfDim  == 64    \* the dims of lines 659-661 are compared with the sizes of
                     \* line 218 for every even d up to 2 * MaxHalfDim
TableRows    == 1024     \* lines 659-661
DefaultTheta == 10000    \* line 190

\* line 656
HeadDimCheck(dim, num_heads) ==
  dim % num_heads = 0 /\ (dim \div num_heads) % 2 = 0

\* a plausible slip: the remainder goes to the last table
BuildDimsLast(d) == <<2 * (d \div 6), 2 * (d \div 6), d - 4 * (d \div 6)>>

\* lines 659-661: the dim of the three calls of rope_params
BuildDims(d) == <<d - 4 * (d \div 6), 2 * (d \div 6), 2 * (d \div 6)>>

\* torch.cat(..., dim=1) of two tables with the same rows
CatColumns(a, b) == [p \in DOMAIN a |-> Cat0(a[p], b[p])]

InitInit ==
  /\ w_args \in [dim : 1..MaxModelDim, num_heads : 1..MaxHeads]
  /\ w_pc = "init"
  /\ w_tables = <<>>
  /\ w_split = <<>>
  /\ total_pairs = 0 /\ bands = <<>>
  /\ InitApplyIdle
  /\ InitKernelIdle
  /\ InitParamsIdle

\* lines 655-662
wan_init ==
  /\ w_pc = "init"
  /\ LET d    == w_args.dim \div w_args.num_heads
         tabs == [b \in 1..3 |-> RopeParams(TableRows, BuildDims(d)[b], DefaultTheta)]
     IN  IF ~HeadDimCheck(w_args.dim, w_args.num_heads)
              \/ \E b \in 1..3 : tabs[b].err # 0
           THEN /\ w_pc' = "raised"
                /\ UNCHANGED <<w_tables, freqs>>
           ELSE /\ w_pc' = "built"
                /\ w_tables' = [b \in 1..3 |-> tabs[b].table]
                /\ freqs' = CatColumns(CatColumns(tabs[1].table, tabs[2].table),
                                       tabs[3].table)
  /\ UNCHANGED <<w_args, w_split, x_in, grid_sizes, a_pc, a_i, output, freqs_i, a_err,
                 varsSplit, varsKernel, varsParams>>

\* lines 329-337: an attention layer hands its queries, of num_heads heads of
\* dim // num_heads values, to rope_apply with the table of the model
wan_forward ==
  /\ w_pc = "built"
  /\ w_pc' = "forward"
  /\ x_in' = InputX(1, 1, w_args.num_heads, (w_args.dim \div w_args.num_heads) \div 2)
  /\ UNCHANGED <<w_args, w_tables, w_split, grid_sizes, freqs, a_pc, a_i, output,
                 freqs_i, a_err, varsSplit, varsKernel, varsParams>>

\* lines 213-218 of rope_apply: c, and the split of the table
rope_apply_split ==
  /\ w_pc = "forward"
  /\ bands' = SplitSizes(a_c)
  /\ IF SplitSizes(a_c)[1] + SplitSizes(a_c)[2] + SplitSizes(a_c)[3] = Len0(freqs[0])
       THEN /\ w_pc' = "split"
            /\ w_split' = [b \in 1..3 |-> SplitBand(b)]
       ELSE /\ w_pc' = "raised"
            /\ UNCHANGED w_split
  /\ UNCHANGED <<w_args, w_tables, total_pairs, varsApply, varsKernel, varsParams>>

NextInit == wan_init \/ wan_forward \/ rope_apply_split

SpecInit == InitInit /\ [][NextInit]_vars

\* C15: for an even per-head dimension d the three tables built have dims
\* d - 4*(d // 6), 2*(d // 6), 2*(d // 6), each even, with pair counts
\* (d/2 - 2*(d // 6), d // 6, d // 6) that sum to d/2; these are, band for band,
\* the sizes (c - 2*(c // 3), c // 3, c // 3), c = d/2, of the split of
\* rope_apply, and each slice of the split is the table of one axis.
C15_BuildApplyBands ==
  LET d     == w_args.dim \div w_args.num_heads
      c     == d \div 2
      pairs == [b \in 1..3 |-> Len0(w_tables[b][0])]
  IN  /\ (w_pc # "init" /\ w_args.dim % w_args.num_heads = 0 /\ d % 2 = 0)
           => w_pc # "raised"
      /\ w_pc \in {"built", "forward", "split"} =>
           /\ pairs = [b \in 1..3 |-> IF b = 1 THEN c - 2 * (d \div 6) ELSE d \div 6]
           /\ pairs[1] + pairs[2] + pairs[3] = c
           /\ \A b \in 1..3 : \A p \in DOMAIN w_tables[b] : \A k \in DOMAIN w_tables[b][p] :
                w_tables[b][p][k].dim % 2 = 0 /\ w_tables[b][p][k].dim = 2 * pairs[b]
      /\ w_pc = "split" =>
           /\ bands = <<c - 2 * (c \div 3), c \div 3, c \div 3>>
           /\ \A b \in 1..3 : bands[b] = pairs[b] /\ w_split[b] = w_tables[b]
           /\ \A h \in 0..MaxHalfDim : \A b \in 1..3 :
                BuildDims(2 * h)[b] = 2 * SplitSizes(h)[b]

\* the table was built and split for a d that 6 does not divide, with three
\* bands that are not empty
C15_Witness ==
  /\ w_pc = "split"
  /\ (w_args.dim \div w_args.num_heads) % 6 # 0
  /\ \A b \in 1..3 : bands[b] >= 1
  /\ bands[1] > bands[2]

====
